---- MODULE Spec2Model ----
(***************************************************************************)
(* A model of gaeta's TimeContext (src/src/lib.rs): a progress tracker     *)
(* that keeps a window of at most ten (timestamp, progress) samples and    *)
(* derives a speed and a remaining-time estimate from it, together with    *)
(* the TestTimer time source.                                              *)
(*                                                                         *)
(* f64 values are modelled as pairs <<n, d>>: a finite value is the        *)
(* reduced fraction n/d with d > 0, +Infinity is <<1, 0>>, -Infinity is    *)
(* <<-1, 0>> and NaN is <<0, 0>>.  Arithmetic on finite values is exact    *)
(* (no rounding); the special values follow IEEE 754.  Zero carries no     *)
(* sign: every zero the program divides by is +0.0 (a converted u64, or a  *)
(* sum that started from 0f64).                                            *)
(***************************************************************************)
EXTENDS Integers, Sequences, FiniteSets, TLC

VARIABLES
    cur_ts,      \* TestTimer.cur_ts
    fts,         \* TimeContext.fts   : Option<u64>, <<>> is None, <<v>> is Some(v)
    fprog,       \* TimeContext.fprog : Option<f64>
    cprog,       \* TimeContext.cprog
    curspeed,    \* TimeContext.curspeed
    samples,     \* TimeContext.samples, front first
    ret,         \* what the most recent call returned (get_remaining_time)
    calls,       \* number of update_eta calls made so far
    last,        \* the most recent update_eta call and what it did
    mono,        \* every call so far: timestamps strictly up, progress not down, max_prog > 0
    linear       \* the calls so far are update_eta(10k, 100) at timestamp 10k, k = 0, 1, ...

vars == <<cur_ts, fts, fprog, cprog, curspeed, samples, ret, calls, last, mono, linear>>

----------------------------------------------------------------------------
(* Bounds of the model *)

\* u64/uint arithmetic wraps modulo this (2^64 in the program, scaled down).
U64Modulus == 128
\* The free specification: timestamps 0..MaxTs, progress counted in steps of
\* fifty (cur_prog up to 50 * MaxCur, max_prog up to 50 * MaxMax), at most
\* MaxCalls calls of update_eta.
MaxTs == 1
MaxCur == 1
MaxMax == 2
MaxCalls == 3
\* The polling specification: at most MaxTicks ticks of the timer and
\* MaxPolls calls of update_eta.
\* The monotone specification: timestamps 0..MonoTs, cur_prog 0..MonoCur,
\* max_prog 1..MonoMax, at most MonoCalls calls of update_eta.
MonoTs == 3
MonoCur == 3
MonoMax == 3
MonoCalls == 4
MaxTicks == 12
MaxPolls == 13

----------------------------------------------------------------------------
(* Option<T> *)

None == <<>>
Some(v) == <<v>>
unwrap(o) == o[1]
unwrap_or(o, dflt) == IF o = None THEN dflt ELSE o[1]

----------------------------------------------------------------------------
(* u64 *)

\* a - b on u64 (wrapping)
SubU64(a, b) == (a - b + U64Modulus) % U64Modulus

----------------------------------------------------------------------------
(* f64 *)

NaN == <<0, 0>>
PosInf == <<1, 0>>
NegInf == <<-1, 0>>
Zero == <<0, 1>>

Abs(i) == IF i < 0 THEN -i ELSE i

RECURSIVE GCD(_, _)
GCD(a, b) == IF b = 0 THEN a ELSE GCD(b, a % b)

\* the fraction n/d, d # 0, in lowest terms with a positive denominator
Frac(n, d) ==
    LET g == GCD(Abs(n), Abs(d))
        s == IF d < 0 THEN -1 ELSE 1
    IN  <<(s * n) \div g, (s * d) \div g>>

IsNaN(x) == x = NaN
IsInf(x) == x = PosInf \/ x = NegInf
IsFinite(x) == x[2] > 0
Sign(x) == IF x[1] > 0 THEN 1 ELSE IF x[1] < 0 THEN -1 ELSE 0
InfOfSign(s) == IF s > 0 THEN PosInf ELSE NegInf

\* u64 as f64
F64(n) == <<n, 1>>

F64Neg(x) == <<-x[1], x[2]>>

F64Add(x, y) ==
    IF IsNaN(x) \/ IsNaN(y) THEN NaN
    ELSE IF IsInf(x) /\ IsInf(y) THEN (IF x = y THEN x ELSE NaN)
    ELSE IF IsInf(x) THEN x
    ELSE IF IsInf(y) THEN y
    ELSE Frac(x[1] * y[2] + y[1] * x[2], x[2] * y[2])

F64Sub(x, y) == F64Add(x, F64Neg(y))

F64Mul(x, y) ==
    IF IsNaN(x) \/ IsNaN(y) THEN NaN
    ELSE IF IsInf(x) \/ IsInf(y)
         THEN (IF Sign(x) * Sign(y) = 0 THEN NaN ELSE InfOfSign(Sign(x) * Sign(y)))
    ELSE Frac(x[1] * y[1], x[2] * y[2])

F64Div(x, y) ==
    IF IsNaN(x) \/ IsNaN(y) THEN NaN
    ELSE IF IsInf(x) /\ IsInf(y) THEN NaN
    ELSE IF IsInf(x) THEN (IF Sign(y) < 0 THEN F64Neg(x) ELSE x)
    ELSE IF IsInf(y) THEN Zero
    ELSE IF Sign(y) = 0 THEN (IF Sign(x) = 0 THEN NaN ELSE InfOfSign(Sign(x)))
    ELSE Frac(x[1] * y[2], x[2] * y[1])

\* x == y on f64: false when either side is NaN
F64Eq(x, y) == ~IsNaN(x) /\ ~IsNaN(y) /\ x = y

\* x >= y on f64: false when either side is NaN
F64Ge(x, y) ==
    /\ ~IsNaN(x)
    /\ ~IsNaN(y)
    /\ \/ x = PosInf
       \/ y = NegInf
       \/ IsFinite(x) /\ IsFinite(y) /\ x[1] * y[2] >= y[1] * x[2]

----------------------------------------------------------------------------
(* int results *)

IntValue(n) == [tag |-> "value", v |-> n]
I64Min == [tag |-> "i64_min", v |-> 0]
I64Max == [tag |-> "i64_max", v |-> 0]
NoValue == [tag |-> "none", v |-> 0]

\* `x as int` for x >= 0.  A finite value is truncated toward zero.  The
\* cast of +Infinity is outside what the language defines: an x86-64 build
\* (cvttsd2si) yields the smallest int, a saturating conversion the largest.
F64AsInt(x) ==
    IF IsFinite(x) THEN {IntValue(x[1] \div x[2])} ELSE {I64Min, I64Max}

----------------------------------------------------------------------------
(* TestTimer.  The time source of the model is the TestTimer of the        *)
(* library: get_timestamp returns what set_timestamp last stored.          *)

get_timestamp == cur_ts

set_timestamp(ts) ==
    /\ ts \in 0..(U64Modulus - 1)
    /\ cur_ts' = ts
    /\ ret' = NoValue
    /\ UNCHANGED <<fts, fprog, cprog, curspeed, samples, calls, last, mono, linear>>

----------------------------------------------------------------------------
(* TimeContext *)

Sample(ts, prog) == [timestamp |-> ts, progress |-> prog]

HistoryFull_OffByOne(h) == Len(h) > 10

\* The capacity test of update_history: `vhist.len() > 9`.
HistoryFull(h) == Len(h) > 9

pop_back_if_full(h) == IF HistoryFull(h) THEN SubSeq(h, 1, Len(h) - 1) ELSE h

\* `if vhist.len() > 9 { vhist.pop_front(); }`
pop_front_if_full(h) == IF HistoryFull(h) THEN Tail(h) ELSE h

\* RingBuf::get(i): None when i is not an index of the buffer.
RingBufGet(h, i) == IF i < Len(h) THEN Some(h[i + 1]) ELSE None

last_progress_unset(h) == IF Len(h) = 0 THEN NaN ELSE h[Len(h)].progress

\* `vhist.get(vhist.len() - 1)` mapped to the sample's progress, else 0f64.
\* On an empty history the index wraps to the largest uint and get is None.
last_progress(h) ==
    LET tv == RingBufGet(h, SubU64(Len(h), 1))
    IN  IF tv # None THEN unwrap(tv).progress ELSE Zero

get_progress(cur, max) == F64Div(F64Mul(F64(cur), F64(100)), F64(max))

\* The test that ends update_history early:
\* `last_progress == prog - self.fprog.unwrap()`.
IsDuplicate(h, prog, fp) == F64Eq(last_progress(h), F64Sub(prog, unwrap(fp)))

speed_sample_reversed(vitem, ft, fp) ==
    LET timestamp == SubU64(vitem.timestamp, unwrap_or(ft, 0))
        percent == F64Sub(unwrap_or(fp, Zero), vitem.progress)
    IN  F64Div(percent, F64(IF timestamp = 0 THEN 1 ELSE timestamp))

\* One term of the sum of calc_speed_per_unit.
speed_sample(vitem, ft, fp) ==
    LET timestamp == SubU64(vitem.timestamp, unwrap_or(ft, 0))
        percent == F64Sub(vitem.progress, unwrap_or(fp, Zero))
    IN  F64Div(percent, F64(IF timestamp = 0 THEN 1 ELSE timestamp))

RECURSIVE speed_sum(_, _, _, _)
speed_sum(h, i, ft, fp) ==
    IF i = 0 THEN Zero
    ELSE F64Add(speed_sum(h, i - 1, ft, fp), speed_sample(h[i], ft, fp))

calc_speed_per_window(h, ft, fp) ==
    IF Len(h) = 0 THEN Zero
    ELSE F64Div(speed_sum(h, Len(h), ft, fp), F64(10))

calc_speed_per_unit(h, ft, fp) ==
    IF Len(h) = 0 THEN Zero
    ELSE F64Div(speed_sum(h, Len(h), ft, fp), F64(Len(h)))

\* The history after update_history(cur_prog, max_prog).
update_history(h, prog, fp, ts) ==
    IF IsDuplicate(h, prog, fp) THEN h
    ELSE Append(pop_front_if_full(h), Sample(ts, prog))

\* Whether progress p is not below progress q (both finite).
NotBelow(p, q) == IsFinite(p) /\ IsFinite(q) /\ F64Ge(p, q)

first_timestamp_latest(ft, ts) == Some(ts)

\* `if let None = self.fts { self.fts = Some(self.timefunc.get_timestamp()); }`
first_timestamp(ft, ts) == IF ft = None THEN Some(ts) ELSE ft

\* `if let None = self.fprog { self.fprog = Some(prog); }`
first_progress(fp, prog) == IF fp = None THEN Some(prog) ELSE fp

update_eta(cur_prog, max_prog) ==
    LET fts1 == first_timestamp(fts, get_timestamp)
        prog == get_progress(cur_prog, max_prog)
        fprog1 == first_progress(fprog, prog)
        ts == get_timestamp
        samples1 == update_history(samples, prog, fprog1, ts)
    IN  /\ fts' = fts1
        /\ cprog' = prog
        /\ fprog' = fprog1
        /\ samples' = samples1
        /\ curspeed' = calc_speed_per_unit(samples1, fts1, fprog1)
        /\ ret' = NoValue
        /\ calls' = calls + 1
        /\ last' = [cur |-> cur_prog, max |-> max_prog, ts |-> ts,
                    repeat |-> /\ calls > 0
                               /\ last.cur = cur_prog
                               /\ last.max = max_prog
                               /\ last.ts < ts,
                    appended |-> ~IsDuplicate(samples, prog, fprog1),
                    evicted |-> ~IsDuplicate(samples, prog, fprog1) /\ HistoryFull(samples)]
        /\ mono' = /\ mono
                   /\ max_prog > 0
                   /\ calls > 0 => (last.ts < ts /\ NotBelow(prog, cprog))
        /\ linear' = /\ linear
                     /\ ts = 10 * calls
                     /\ cur_prog = 10 * calls
                     /\ max_prog = 100
        /\ UNCHANGED cur_ts

\* `100.0f64 - (self.cprog - self.fprog.unwrap_or(0f64))`
remaining_prc == F64Sub(F64(100), F64Sub(cprog, unwrap_or(fprog, Zero)))

\* `remaining_prc / self.curspeed`
whole_work == F64Div(remaining_prc, curspeed)

EtaNotNegative(w) == IsNaN(w) \/ F64Ge(w, Zero)

\* The test `whole_work >= 0f64` of get_remaining_time.
EtaUsable(w) == F64Ge(w, Zero)

get_remaining_time_unguarded ==
    IF EtaUsable(whole_work) THEN F64AsInt(whole_work) ELSE {IntValue(0)}

\* What get_remaining_time may return in the current state.
get_remaining_time ==
    IF fts = None THEN {IntValue(0)}
    ELSE IF fprog = None THEN {IntValue(0)}
    ELSE IF EtaUsable(whole_work) THEN F64AsInt(whole_work)
    ELSE {IntValue(0)}

GetRemainingTime ==
    /\ ret = NoValue
    /\ ret' \in get_remaining_time
    /\ UNCHANGED <<cur_ts, fts, fprog, cprog, curspeed, samples, calls, last, mono, linear>>

----------------------------------------------------------------------------
(* TimeContext::new(TestTimer::new()) *)

Init ==
    /\ cur_ts = 0
    /\ fts = None
    /\ fprog = None
    /\ cprog = Zero
    /\ curspeed = Zero
    /\ samples = <<>>
    /\ ret = NoValue
    /\ calls = 0
    /\ last = [cur |-> 0, max |-> 0, ts |-> 0, repeat |-> FALSE,
               appended |-> FALSE, evicted |-> FALSE]
    /\ mono = TRUE
    /\ linear = TRUE

----------------------------------------------------------------------------
(* The free specification: any timestamp, any arguments, few calls. *)

CurProgs == {50 * k : k \in 0..MaxCur}
MaxProgs == {50 * k : k \in 0..MaxMax}

SetTimestamp == \E ts \in 0..MaxTs : ts # cur_ts /\ set_timestamp(ts)

UpdateEta ==
    /\ calls < MaxCalls
    /\ \E cur_prog \in CurProgs, max_prog \in MaxProgs : update_eta(cur_prog, max_prog)

Next == SetTimestamp \/ UpdateEta \/ GetRemainingTime

Spec == Init /\ [][Next]_vars

----------------------------------------------------------------------------
(* The polling specification: an operation that advances one unit of       *)
(* progress per unit of time, out of 100, watched by a caller that lets    *)
(* the timer run in ticks of ten and polls at most once per tick.          *)

Tick ==
    /\ cur_ts < 10 * MaxTicks
    /\ set_timestamp(cur_ts + 10)

Poll ==
    /\ calls < MaxPolls
    /\ calls > 0 => last.ts < cur_ts
    /\ update_eta(cur_ts, 100)

NextPoll == Tick \/ Poll \/ GetRemainingTime

SpecPoll == Init /\ [][NextPoll]_vars

----------------------------------------------------------------------------
(* The monotone specification: the timer only moves forward between calls  *)
(* and no call reports less progress than the call before it.              *)

Advance ==
    /\ \E ts \in (cur_ts + 1)..MonoTs : set_timestamp(ts)

Report ==
    /\ calls < MonoCalls
    /\ calls > 0 => last.ts < cur_ts
    /\ \E cur_prog \in 0..MonoCur, max_prog \in 1..MonoMax :
          /\ calls > 0 => NotBelow(get_progress(cur_prog, max_prog), cprog)
          /\ update_eta(cur_prog, max_prog)

NextMono == Advance \/ Report \/ GetRemainingTime

SpecMono == Init /\ [][NextMono]_vars

----------------------------------------------------------------------------
(* Properties *)

Progresses(h) == [i \in 1..Len(h) |-> h[i].progress]
Returned == ret # NoValue

\* C1: whatever calls were made, the history holds at most 10 samples.
C1_HistoryAtMostTen == Len(samples) <= 10

\* C1 witness: a call appended to a history that already held 10 samples.
C1_Witness == last.evicted /\ Len(samples) = 10

\* C2: fts and fprog are unset until the first update_eta call; that call
\* sets fts to the time source's value and fprog to the call's progress
\* percentage; no later step changes either.
C2_FirstFixedOnce ==
    /\ [](calls = 0 => fts = None /\ fprog = None)
    /\ [][IF calls = 0 /\ calls' = 1
          THEN /\ fts' = Some(cur_ts)
               /\ fprog' = Some(get_progress(last'.cur, last'.max))
          ELSE /\ fts' = fts
               /\ fprog' = fprog]_vars

\* C2 witness: a later call made at a lower timestamp and with a lower
\* progress than the first one.
C2_Witness ==
    /\ calls >= 2
    /\ last.ts < unwrap(fts)
    /\ IsFinite(cprog)
    /\ IsFinite(unwrap(fprog))
    /\ ~F64Ge(cprog, unwrap(fprog))

\* C3: a call that repeats the arguments of the call before it
\* (max_prog > 0) after the time source advanced appends no sample, and
\* current_progress is the recomputed percentage.
C3_RepeatAppendsNothing ==
    last.repeat /\ last.max > 0 =>
        /\ ~last.appended
        /\ cprog = get_progress(last.cur, last.max)

\* C4 as stated: every call that reports more progress than the call before
\* it appends a sample, the very first call included, and after the ten
\* calls of the scenario the history holds progress 0, 10, ..., 90.
C4_EveryCallAppends ==
    /\ calls > 0 => last.appended
    /\ linear /\ calls = 10 =>
          Progresses(samples) = [i \in 1..10 |-> F64(10 * (i - 1))]

\* C4 amended: when the first call reported 0% and every call reports more
\* progress than the call before it, the first call appends no sample and
\* every later call appends exactly one; after the k-th call of the scenario
\* (k <= 10) the history holds the samples of calls 2..k, so after ten calls
\* it holds 9 samples with progress 10, 20, ..., 90 in that order.
C4_AllButFirstAppend ==
    /\ calls > 0 /\ fprog = Some(Zero) => (last.appended <=> calls > 1)
    /\ linear /\ calls \in 1..10 =>
          /\ Len(samples) = calls - 1
          /\ \A i \in 1..Len(samples) : samples[i] = Sample(10 * i, F64(10 * i))

\* C4 witness: the ten calls of the scenario have been made.
C4_Witness == linear /\ calls = 10 /\ Len(samples) = 9 /\ last.appended

\* C5: once update_eta has been called and current_speed is 0,
\* get_remaining_time returns 0.
C5_ZeroSpeedReturnsZero ==
    calls > 0 /\ curspeed = Zero /\ Returned => ret = IntValue(0)

\* C6: while timestamps strictly increase from call to call and progress
\* never decreases (max_prog > 0), current_speed >= 0 after every call.
C6_SpeedNotNegative == mono => F64Ge(curspeed, Zero)

\* C6 witness: three such calls, the history holds two samples and the speed
\* is positive.
C6_Witness ==
    /\ mono
    /\ calls >= 3
    /\ Len(samples) >= 2
    /\ curspeed # Zero
    /\ unwrap(fprog) # Zero

\* C7: after the ten calls of the scenario current_speed is 1.0 and
\* get_remaining_time returns 10.
C7_LinearSpeedAndEta ==
    linear /\ calls = 10 =>
        /\ curspeed = F64(1)
        /\ Returned => ret = IntValue(10)

\* C7 witness: get_remaining_time has returned after the ten calls.
C7_Witness == linear /\ calls = 10 /\ Returned

\* C8: before any update_eta call get_remaining_time returns 0, whatever the
\* time source holds.
C8_FreshReturnsZero == calls = 0 /\ Returned => ret = IntValue(0)

\* C8 witness: the time source was changed, then get_remaining_time returned.
C8_Witness == calls = 0 /\ cur_ts # 0 /\ Returned

\* C9: after update_eta(cur_prog, 0) on a fresh tracker current_progress is
\* NaN or Infinity and get_remaining_time returns 0.
C9_ZeroMaxAbsorbed ==
    calls = 1 /\ last.max = 0 =>
        /\ cprog \in {NaN, PosInf}
        /\ Returned => ret = IntValue(0)

\* C9 witness: update_eta(50, 0) on a fresh tracker, then get_remaining_time.
C9_Witness ==
    /\ calls = 1
    /\ last.cur = 50
    /\ last.max = 0
    /\ cprog = PosInf
    /\ Returned

\* C10: a call that appends to a history of 10 samples removes exactly the
\* front sample, keeps the other 9 in order and puts the new sample
\* {timestamp, progress} last; with fewer than 10 samples nothing is removed
\* and the new sample is added at the back.
C10_Fifo ==
    [][calls' = calls + 1 /\ last'.appended =>
          samples' = Append(IF Len(samples) = 10 THEN Tail(samples) ELSE samples,
                            Sample(cur_ts, cprog'))]_vars

\* C10 witness: two samples have been evicted from the front.
C10_Witness ==
    /\ last.evicted
    /\ calls = 13
    /\ samples[1].timestamp = 30
    /\ samples[10] = Sample(cur_ts, cprog)

====
